---- MODULE Spec2Model ----
(***************************************************************************)
(* Film voting bot (src/bot.py): the SQLite store behind FilmVotingBot,   *)
(* the methods of FilmVotingBot, and the Telegram handlers that call them. *)
(*                                                                         *)
(* Scores are kept in half points: the SQL constants 0.5 and 1.0 are the   *)
(* integers 1 and 2 (sums of halves are exact in binary floating point).   *)
(* Titles are sequences of code points, so that LOWER() and the binary    *)
(* collation of ORDER BY title are computed, not assumed.                  *)
(* Python values returned to a caller are tagged [t, v] records: True is   *)
(* [t |-> "bool", v |-> 1], None is [t |-> "none", v |-> 0].                *)
(***************************************************************************)
EXTENDS Integers, Sequences, FiniteSets, TLC

\* ------------------------------------------------------------------ bounds
\* The rows the model lets the three AUTOINCREMENT tables hand ids to, in
\* total (films + rounds + votes ever inserted, the bootstrap round included).
MaxInserts == 6
\* The same total for the model of concurrent connections.
MaxConcInserts == 4
\* The same total for the model of the Telegram handlers.
MaxBotInserts == 4

\* Telegram user ids of the participants.
Users == {101, 102}
\* Film titles an admin may add: "A" and "a", as code points.
Titles == {<<65>>, <<97>>}
\* Round names an admin may supply; "Round 1" is also the bootstrap name.
RoundNames == {"Round 1", "Finals"}

\* ------------------------------------------------------------ Python values
PyTrue == [t |-> "bool", v |-> 1]
PyFalse == [t |-> "bool", v |-> 0]
PyNone == [t |-> "none", v |-> 0]
PyInt(n) == [t |-> "int", v |-> n]
PyBool(b) == IF b THEN PyTrue ELSE PyFalse

\* sqlite3 adapts a Python bool bound to a parameter to the integers 1 / 0.
AdaptBool(b) == IF b THEN 1 ELSE 0

\* ------------------------------------------------------------------- state
VARIABLES
    db,         \* the committed content of film_voting.db
    cast,       \* history: the (user, round) pairs for which add_vote has returned True
    sessions,   \* context.bot_data['voting_sessions']
    conn,       \* per caller: the open connection of a call in progress
    shown       \* per chat: the film ids on the buttons of the interfaces sent to it so far

vars == <<db, cast, sessions, conn, shown>>

\* The store before init_database ever ran: no rows, empty sqlite_sequence.
EmptyDb ==
    [films |-> {}, rounds |-> {}, votes |-> {},
     seq |-> [films |-> 0, rounds |-> 0, votes |-> 0]]

\* ---------------------------------------------------------- SQL statements
\* SELECT COUNT(*) FROM rounds WHERE is_active = 1
ActiveRounds(d) == {r \in d.rounds : r.is_active = 1}

\* Mutant: the id sequence of rounds is not advanced by an insert.
SqlInsertRoundNoSeq(d, name) ==
    [d EXCEPT !.rounds = @ \cup {[id |-> d.seq.rounds + 1, name |-> name, is_active |-> 1]}]

\* INSERT INTO rounds (name, is_active) VALUES (?, 1): AUTOINCREMENT id.
SqlInsertRound(d, name) ==
    [d EXCEPT !.rounds = @ \cup {[id |-> d.seq.rounds + 1, name |-> name, is_active |-> 1]},
              !.seq.rounds = @ + 1]

\* Mutant: the UPDATE that closes the active round is left out.
SqlDeactivateNone(d) == d

\* UPDATE rounds SET is_active = 0 WHERE is_active = 1
SqlDeactivateRounds(d) ==
    [d EXCEPT !.rounds = {[r EXCEPT !.is_active = 0] : r \in @}]

\* init_database: the tables exist afterwards; a default active round is
\* inserted when no round is active.
InitDatabase(d) ==
    IF Cardinality(ActiveRounds(d)) = 0 THEN SqlInsertRound(d, "Round 1") ELSE d

\* Mutant: the statements run before the failure stay in the store.
RollbackKeepsPartial(committed, partial) == partial

\* Closing a connection that was never committed rolls its transaction back:
\* the store keeps `committed`, the statements run so far (`partial`) are lost.
Rollback(committed, partial) == committed

\* conn.commit(): the transaction's statements become the store's content.
Commit(partial) == partial

\* Mutant: the votes table has no UNIQUE(user_id, round_id) constraint.
VoteUniqueMissing(d, user, round) == FALSE

\* The UNIQUE(user_id, round_id) constraint of the votes table.
VoteUniqueViolated(d, user, round) ==
    \E v \in d.votes : v.user_id = user /\ v.round_id = round

\* INSERT INTO votes (user_id, film_id, round_id, seen) VALUES (?, ?, ?, ?).
\* The connection never sets PRAGMA foreign_keys, so the FOREIGN KEY clauses
\* of the schema are parsed but not enforced: film_id and round_id are stored
\* as given.
SqlInsertVote(d, user, film, round, seen) ==
    [d EXCEPT !.votes = @ \cup {[id |-> d.seq.votes + 1, user_id |-> user,
                                 film_id |-> film, round_id |-> round,
                                 seen |-> AdaptBool(seen)]},
              !.seq.votes = @ + 1]

\* Mutant: the title column without its UNIQUE constraint.
TitleUniqueMissing(d, title) == FALSE

\* The UNIQUE constraint on films.title (exact, binary comparison).
TitleUniqueViolated(d, title) == \E f \in d.films : f.title = title

\* Mutant: the id column without AUTOINCREMENT: one more than the largest id
\* in the table.
SqlInsertFilmMaxRowid(d, title) ==
    LET top == IF d.films = {} THEN 0
               ELSE CHOOSE n \in {f.id : f \in d.films} : \A f \in d.films : f.id <= n
    IN  [d EXCEPT !.films = @ \cup {[id |-> top + 1, title |-> title]},
                  !.seq.films = @ + 1]

\* INSERT INTO films (title) VALUES (?): AUTOINCREMENT id.
SqlInsertFilm(d, title) ==
    [d EXCEPT !.films = @ \cup {[id |-> d.seq.films + 1, title |-> title]},
              !.seq.films = @ + 1]

\* Mutant: delete_film without the DELETE FROM votes.
SqlDeleteVotesNone(d, film) == d

\* Mutant: the DELETE FROM votes without its WHERE clause.
SqlDeleteVotesAll(d, film) == [d EXCEPT !.votes = {}]

\* DELETE FROM votes WHERE film_id = ?
SqlDeleteVotesOfFilm(d, film) ==
    [d EXCEPT !.votes = {v \in @ : v.film_id # film}]

\* DELETE FROM films WHERE id = ?
SqlDeleteFilm(d, film) ==
    [d EXCEPT !.films = {f \in @ : f.id # film}]

\* --------------------------------------------------- FilmVotingBot methods
\* A mutating method is a set of outcomes [db, ret]. `fault` = 0 is a run in
\* which no statement raises; `fault` = i is a run in which the i-th store
\* call of the method raises (an I/O error, "database is locked"): the
\* method's `except Exception` returns False and the connection, never
\* committed, is closed when the method returns.

\* get_active_round: SELECT id FROM rounds WHERE is_active = 1, fetchone().
\* The values fetchone() may give: any active round's id, or None.
GetActiveRound(d) ==
    IF ActiveRounds(d) = {} THEN {PyNone} ELSE {PyInt(r.id) : r \in ActiveRounds(d)}

\* Mutant: a ballot in any round counts.
HasUserVotedAnyRound(d, user, round) ==
    Cardinality({v \in d.votes : v.user_id = user}) > 0

\* has_user_voted_in_round: SELECT COUNT(*) ... WHERE user_id = ? AND round_id = ?
HasUserVotedInRound(d, user, round) ==
    Cardinality({v \in d.votes : v.user_id = user /\ PyInt(v.round_id) = round}) > 0

\* add_film
AddFilm(d, title, fault) ==
    IF fault = 1 THEN {[db |-> Rollback(d, d), ret |-> PyFalse]}
    ELSE IF TitleUniqueViolated(d, title) THEN {[db |-> Rollback(d, d), ret |-> PyFalse]}
    ELSE IF fault = 2 THEN {[db |-> Rollback(d, SqlInsertFilm(d, title)), ret |-> PyFalse]}
    ELSE {[db |-> Commit(SqlInsertFilm(d, title)), ret |-> PyTrue]}

\* Mutant: INSERT OR REPLACE, which overwrites the ballot already cast.
AddVoteInReplace(d, user, film, round, seen, fault) ==
    IF round = PyNone \/ round.v = 0 THEN [db |-> d, ret |-> PyFalse]
    ELSE LET kept == [d EXCEPT !.votes = {v \in @ : ~(v.user_id = user /\ v.round_id = round.v)}]
         IN  [db |-> [kept EXCEPT !.votes = @ \cup {[id |-> d.seq.votes + 1, user_id |-> user,
                                                     film_id |-> film, round_id |-> round.v,
                                                     seen |-> IF seen THEN 1 ELSE 0]},
                                  !.seq.votes = @ + 1],
              ret |-> PyTrue]

\* Mutant: a user may vote once per film in a round.
AddVoteInPerFilm(d, user, film, round, seen, fault) ==
    IF round = PyNone \/ round.v = 0 THEN [db |-> d, ret |-> PyFalse]
    ELSE IF fault # 0 THEN [db |-> d, ret |-> PyFalse]
    ELSE IF \E v \in d.votes : v.user_id = user /\ v.round_id = round.v /\ v.film_id = film
         THEN [db |-> d, ret |-> PyFalse]
    ELSE [db |-> SqlInsertVote(d, user, film, round.v, seen), ret |-> PyTrue]

\* add_vote: the round is the one get_active_round() gives at the call, not
\* an argument.
AddVoteIn(d, user, film, round, seen, fault) ==
    IF round = PyNone \/ round.v = 0 THEN [db |-> d, ret |-> PyFalse]
    ELSE IF fault = 1 THEN [db |-> Rollback(d, d), ret |-> PyFalse]
    ELSE IF VoteUniqueViolated(d, user, round.v) THEN [db |-> Rollback(d, d), ret |-> PyFalse]
    ELSE IF fault = 2
         THEN [db |-> Rollback(d, SqlInsertVote(d, user, film, round.v, seen)), ret |-> PyFalse]
    ELSE [db |-> Commit(SqlInsertVote(d, user, film, round.v, seen)), ret |-> PyTrue]

AddVote(d, user, film, seen, fault) ==
    {AddVoteIn(d, user, film, round, seen, fault) : round \in GetActiveRound(d)}

\* Mutant: opening a round also clears the ballots.
CreateNewRoundResetVotes(d, name, fault) ==
    LET s1 == SqlDeactivateRounds(d)
        s2 == SqlInsertRound(s1, name)
    IN  IF fault = 0 THEN {[db |-> [s2 EXCEPT !.votes = {}], ret |-> PyTrue]}
        ELSE {[db |-> d, ret |-> PyFalse]}

\* create_new_round
CreateNewRound(d, name, fault) ==
    LET s1 == SqlDeactivateRounds(d)
        s2 == SqlInsertRound(s1, name)
    IN  IF fault = 0 THEN {[db |-> Commit(s2), ret |-> PyTrue]}
        ELSE IF fault = 1 THEN {[db |-> Rollback(d, d), ret |-> PyFalse]}
        ELSE IF fault = 2 THEN {[db |-> Rollback(d, s1), ret |-> PyFalse]}
        ELSE {[db |-> Rollback(d, s2), ret |-> PyFalse]}

\* delete_film
DeleteFilm(d, film, fault) ==
    LET s1 == SqlDeleteVotesOfFilm(d, film)
        s2 == SqlDeleteFilm(s1, film)
    IN  IF ~ \E f \in d.films : f.id = film THEN {[db |-> d, ret |-> PyFalse]}
        ELSE IF fault = 0 THEN {[db |-> Commit(s2), ret |-> PyTrue]}
        ELSE IF fault = 1 THEN {[db |-> Rollback(d, d), ret |-> PyFalse]}
        ELSE IF fault = 2 THEN {[db |-> Rollback(d, s1), ret |-> PyFalse]}
        ELSE {[db |-> Rollback(d, s2), ret |-> PyFalse]}

\* ---------------------------------------------------------------- scoring
\* The CASE expression of get_results on one joined row (half points):
\* WHEN v.seen = 1 THEN 0.5  WHEN v.seen = 0 THEN 1.0  ELSE 0.
CaseScore(v) == IF v.seen = 1 THEN 1 ELSE IF v.seen = 0 THEN 2 ELSE 0

\* Mutant: the join condition forgets the round.
JoinedVotesAnyRound(d, f, round) == {v \in d.votes : v.film_id = f.id}

\* LEFT JOIN votes v ON f.id = v.film_id AND v.round_id = ?: the vote rows
\* joined to film f. A None parameter is SQL NULL and equals no round_id.
JoinedVotes(d, f, round) ==
    {v \in d.votes : v.film_id = f.id /\ PyInt(v.round_id) = round}

RECURSIVE SumCase(_)
SumCase(S) ==
    IF S = {} THEN 0
    ELSE LET v == CHOOSE x \in S : TRUE IN CaseScore(v) + SumCase(S \ {v})

\* COALESCE(SUM(CASE ...), 0) over the group of film f. A film without a
\* joined vote has one row of NULLs, for which the CASE gives 0.
TotalScore(d, f, round) == SumCase(JoinedVotes(d, f, round))

\* The orders in which a set can be listed.
Orderings(S) ==
    {p \in [1..Cardinality(S) -> S] : \A i, j \in 1..Cardinality(S) : i # j => p[i] # p[j]}

\* Mutant: an inner join, which drops the films no vote row joins.
ResultGroupsInner(d, round) ==
    {f \in d.films : \E v \in d.votes : v.film_id = f.id /\ PyInt(v.round_id) = round}

\* FROM films f LEFT JOIN votes v ... GROUP BY f.id, f.title: one group per
\* film, also for a film no vote row joins.
ResultGroups(d, round) == d.films

\* Mutant: the query without its ORDER BY clause.
ResultsForUnordered(d, round) ==
    LET G == d.films
        n == Cardinality(G)
        row(f) == [title |-> f.title, score |-> SumCase({v \in d.votes : v.film_id = f.id /\ PyInt(v.round_id) = round})]
    IN  {[i \in 1..n |-> row(p[i])] : p \in Orderings(G)}

\* get_results(round_id), round_id not None: one row (title, total_score)
\* per group, ORDER BY total_score DESC. The order among equal scores is not
\* fixed by the query: every order is an outcome.
ResultsFor(d, round) ==
    LET G == ResultGroups(d, round)
        n == Cardinality(G)
        row(f) == [title |-> f.title, score |-> TotalScore(d, f, round)]
    IN  {[i \in 1..n |-> row(p[i])] :
            p \in {q \in Orderings(G) :
                     \A i \in 1..(n - 1) :
                        TotalScore(d, q[i], round) >= TotalScore(d, q[i + 1], round)}}

\* get_results: a None round_id is replaced by get_active_round().
GetResults(d, round) ==
    IF round = PyNone
    THEN UNION {ResultsFor(d, r) : r \in GetActiveRound(d)}
    ELSE ResultsFor(d, round)

\* ------------------------------------------------------------ other reads
\* ORDER BY title under the BINARY collation: byte by byte, a proper prefix
\* first.
TitleLess(a, b) ==
    \E k \in 1..(Len(a) + 1) :
        /\ k <= Len(b)
        /\ \A i \in 1..(k - 1) : a[i] = b[i]
        /\ (k > Len(a) \/ a[k] < b[k])

\* get_all_films: SELECT id, title FROM films ORDER BY title, fetchall().
GetAllFilms(d) ==
    LET n == Cardinality(d.films)
    IN  {[i \in 1..n |-> <<p[i].id, p[i].title>>] :
            p \in {q \in Orderings(d.films) :
                     \A i \in 1..(n - 1) : ~TitleLess(q[i + 1].title, q[i].title)}}

\* Mutant: the two COUNT(*) without the round_id condition.
VoteCountsAnyRound(d, film, round) ==
    LET seen == Cardinality({v \in d.votes : v.film_id = film /\ v.seen = 1})
        unseen == Cardinality({v \in d.votes : v.film_id = film /\ v.seen = 0})
    IN  [seen |-> seen, unseen |-> unseen, total |-> seen + unseen]

\* get_vote_counts_for_film for a round id that is not None: two COUNT(*).
VoteCountsFor(d, film, round) ==
    LET seen == Cardinality({v \in d.votes : v.film_id = film /\ PyInt(v.round_id) = round
                                               /\ v.seen = 1})
        unseen == Cardinality({v \in d.votes : v.film_id = film /\ PyInt(v.round_id) = round
                                                 /\ v.seen = 0})
    IN  [seen |-> seen, unseen |-> unseen, total |-> seen + unseen]

\* get_vote_counts_for_film: a None round_id is replaced by get_active_round().
GetVoteCountsForFilm(d, film, round) ==
    IF round = PyNone
    THEN {VoteCountsFor(d, film, r) : r \in GetActiveRound(d)}
    ELSE {VoteCountsFor(d, film, round)}

\* The rows of a fetched result, without their order.
ResultRows(res) == {res[i] : i \in DOMAIN res}

\* The row SELECT id, name FROM rounds WHERE id = ? gives get_round_info:
\* (id, name), or (None, None) when no row has the id.
GriRow(d, round) ==
    LET hit == {r \in d.rounds : PyInt(r.id) = round}
    IN  IF hit = {} THEN {<<PyNone, PyNone>>} ELSE {<<PyInt(r.id), r.name>> : r \in hit}

\* get_round_info(): (id, name) of the round get_active_round() gives.
GetRoundInfo(d) == UNION {GriRow(d, r) : r \in GetActiveRound(d)}

\* Mutant: a read that clears the ballots it has counted.
ReadCallClearing(d, rets) == {[db |-> [d EXCEPT !.votes = {}], ret |-> r] : r \in rets}

\* A call of a method that runs only SELECT statements and closes its
\* connections without a commit: the outcomes [db, ret], one per value the
\* method may return.
ReadCall(d, rets) == {[db |-> Rollback(d, d), ret |-> r] : r \in rets}

CallGetResults(d, round) == ReadCall(d, GetResults(d, round))
CallGetVoteCountsForFilm(d, film, round) == ReadCall(d, GetVoteCountsForFilm(d, film, round))
CallHasUserVotedInRound(d, user, round) == ReadCall(d, {HasUserVotedInRound(d, user, round)})
CallGetAllFilms(d) == ReadCall(d, GetAllFilms(d))
CallGetActiveRound(d) == ReadCall(d, GetActiveRound(d))

\* A Python str.
PyStr(s) == [t |-> "str", v |-> s]

\* Mutant: the last row of the results instead of the first.
GetWinnerLast(d, round) ==
    {IF res = <<>> THEN [title |-> PyNone, score |-> 0]
     ELSE [title |-> PyStr(res[Len(res)].title), score |-> res[Len(res)].score] :
        res \in GetResults(d, round)}

\* get_winner: results[0] if results else (None, 0.0).
GetWinner(d, round) ==
    {IF res = <<>> THEN [title |-> PyNone, score |-> 0]
     ELSE [title |-> PyStr(res[1].title), score |-> res[1].score] :
        res \in GetResults(d, round)}

CallGetWinner(d, round) == ReadCall(d, GetWinner(d, round))
CallGetRoundInfo(d, round) ==
    ReadCall(d, IF round = PyNone THEN GetRoundInfo(d) ELSE GriRow(d, round))

\* ------------------------------------------------------------------- calls
\* user_id not in context.bot_data['voting_sessions']
NoSession == [open |-> FALSE]
\* The users whose updates the handlers receive.
BotUsers == {101}
\* The chats a /vote may be issued in.
Chats == {-1001}

\* The chats in which an interface message may sit: private chats and groups.
Places == BotUsers \cup Chats
Callers == {"c1", "c2"}
Idle == [pc |-> "idle"]

\* Film ids a caller may pass: of a film that exists, of one that was deleted,
\* or one never handed out. Round ids likewise.
FilmIdArgs(d) == 1..(d.seq.films + 1)
RoundIdArgs(d) == 1..(d.seq.rounds + 1)
RoundArgs(d) == {PyInt(r) : r \in RoundIdArgs(d)}
\* The round ids a caller may pass to a read, and None for "the active one".
ReadRoundArgs(d) == RoundArgs(d) \cup {PyNone}

FilmIds(d) == {f.id : f \in d.films}

\* The (user_id, round_id) pairs of the ballots a call inserted.
Inserted(before, after) ==
    {<<v.user_id, v.round_id>> : v \in after.votes \ before.votes}

\* FilmVotingBot(): init_database on the store as found. A first start finds
\* no store.
Init ==
    /\ db = InitDatabase(EmptyDb)
    /\ cast = {}
    /\ sessions = [u \in Users |-> NoSession]
    /\ conn = [c \in Callers |-> Idle]
    /\ shown = [at \in Places |-> {}]

\* A later start of the process: FilmVotingBot() again, on the existing store.
Restart ==
    /\ db' = InitDatabase(db)
    /\ UNCHANGED <<cast, sessions, conn, shown>>

\* The AUTOINCREMENT sequences stay within the model's bound.
WithinBounds(d) == d.seq.films + d.seq.rounds + d.seq.votes <= MaxInserts

DoAddFilm ==
    \E title \in Titles : \E o \in UNION {AddFilm(db, title, fault) : fault \in 0..2} :
        /\ WithinBounds(o.db)
        /\ db' = o.db
        /\ UNCHANGED <<cast, sessions, conn, shown>>

DoAddVote ==
    \E user \in Users, film \in FilmIdArgs(db), seen \in BOOLEAN :
        \E o \in UNION {AddVote(db, user, film, seen, fault) : fault \in 0..2} :
            /\ WithinBounds(o.db)
            /\ db' = o.db
            /\ cast' = cast \cup Inserted(db, o.db)
            /\ UNCHANGED <<sessions, conn, shown>>

DoCreateNewRound ==
    \E name \in RoundNames : \E o \in UNION {CreateNewRound(db, name, fault) : fault \in 0..3} :
        /\ WithinBounds(o.db)
        /\ db' = o.db
        /\ UNCHANGED <<cast, sessions, conn, shown>>

DoDeleteFilm ==
    \E film \in FilmIdArgs(db) : \E o \in UNION {DeleteFilm(db, film, fault) : fault \in 0..3} :
        /\ db' = o.db
        /\ UNCHANGED <<cast, sessions, conn, shown>>

\* A read method called with any arguments.
DoRead ==
    /\ \/ \E round \in ReadRoundArgs(db) :
             \/ \E o \in CallGetResults(db, round) : db' = o.db
             \/ \E o \in CallGetWinner(db, round) : db' = o.db
             \/ \E o \in CallGetRoundInfo(db, round) : db' = o.db
             \/ \E film \in FilmIdArgs(db) :
                   \E o \in CallGetVoteCountsForFilm(db, film, round) : db' = o.db
             \/ \E user \in Users :
                   \E o \in CallHasUserVotedInRound(db, user, round) : db' = o.db
       \/ \E o \in CallGetAllFilms(db) : db' = o.db
       \/ \E o \in CallGetActiveRound(db) : db' = o.db
    /\ UNCHANGED <<cast, sessions, conn, shown>>

\* The methods of one FilmVotingBot object, called one after the other.
Next ==
    \/ Restart
    \/ DoRead
    \/ DoAddFilm
    \/ DoAddVote
    \/ DoCreateNewRound
    \/ DoDeleteFilm

Spec == Init /\ [][Next]_vars

\* ------------------------------------------------- concurrent connections
\* Several callers on the one store, each method run statement by statement
\* on its own connection. sqlite3's default transaction control opens a
\* transaction before the first INSERT / UPDATE / DELETE of a connection and
\* the statement takes the store's write lock; the rows it writes stay in the
\* connection (conn[c].tx) until conn.commit(). A SELECT reads the committed
\* store.

\* Mutant: every statement is committed as it runs (autocommit).
VisibleUncommitted(committed, partial) == partial

\* What the other connections read while a transaction holds the uncommitted
\* content `partial`: the committed store.
Visible(committed, partial) == committed

\* Some connection holds the store's write lock.
WriteLocked == \E c \in Callers : conn[c].pc \notin {"idle", "av_insert", "df_votes", "gri_select"}

\* The AUTOINCREMENT sequences stay within the bound of the concurrent model.
WithinConcBounds(d) == d.seq.films + d.seq.rounds + d.seq.votes <= MaxConcInserts

\* Caller c starts a method: `rec` is its position and its local variables.
Begin(c, rec) ==
    /\ conn[c].pc = "idle"
    /\ conn' = [conn EXCEPT ![c] = rec]

\* The method of caller c returns: its connection is closed.
Return(c) == conn' = [conn EXCEPT ![c] = Idle]

\* add_vote, first store call: round_id = self.get_active_round(). A None
\* round makes the method return False at once. The arguments film_id and
\* seen are inputs first read by the INSERT: the model draws them there.
AvGetActiveRound(c) ==
    \E user \in Users : \E round \in GetActiveRound(db) :
        /\ round # PyNone /\ round.v # 0
        /\ Begin(c, [pc |-> "av_insert", user |-> user, round |-> round.v])
        /\ UNCHANGED <<db, cast, sessions, shown>>

\* add_vote, the INSERT: IntegrityError when the UNIQUE constraint is
\* violated (the method returns False), else the row is written in the
\* connection's transaction.
AvInsert(c) ==
    \E film \in FilmIdArgs(db), seen \in BOOLEAN :
        /\ conn[c].pc = "av_insert"
        /\ ~WriteLocked
        /\ IF VoteUniqueViolated(db, conn[c].user, conn[c].round)
           THEN /\ Return(c)
                /\ db' = Rollback(db, db)
           ELSE LET tx == SqlInsertVote(db, conn[c].user, film, conn[c].round, seen)
                IN  /\ WithinConcBounds(tx)
                    /\ conn' = [conn EXCEPT ![c] = [pc |-> "commit", tx |-> tx]]
                    /\ db' = Visible(db, tx)
        /\ UNCHANGED <<cast, sessions, shown>>

\* create_new_round, the UPDATE. The argument name is first read by the
\* INSERT: the model draws it there.
CnrUpdate(c) ==
    LET tx == SqlDeactivateRounds(db)
    IN  /\ ~WriteLocked
        /\ WithinConcBounds(SqlInsertRound(tx, "Round 1"))
        /\ Begin(c, [pc |-> "cnr_insert", tx |-> tx])
        /\ db' = Visible(db, tx)
        /\ UNCHANGED <<cast, sessions, shown>>

\* create_new_round, the INSERT.
CnrInsert(c) ==
    \E name \in RoundNames :
        /\ conn[c].pc = "cnr_insert"
        /\ LET tx == SqlInsertRound(conn[c].tx, name)
           IN  /\ conn' = [conn EXCEPT ![c] = [pc |-> "commit", tx |-> tx]]
               /\ db' = Visible(db, tx)
        /\ UNCHANGED <<cast, sessions, shown>>

\* add_film, the INSERT: IntegrityError when the title exists.
AfInsert(c) ==
    \E title \in Titles :
        /\ ~WriteLocked
        /\ conn[c].pc = "idle"
        /\ IF TitleUniqueViolated(db, title)
           THEN /\ Return(c)
                /\ db' = Rollback(db, db)
           ELSE LET tx == SqlInsertFilm(db, title)
                IN  /\ WithinConcBounds(tx)
                    /\ conn' = [conn EXCEPT ![c] = [pc |-> "commit", tx |-> tx]]
                    /\ db' = Visible(db, tx)
        /\ UNCHANGED <<cast, sessions, shown>>

\* delete_film, the SELECT of the title: a film that is there. (For a film
\* that is not, the method returns False and nothing changes.)
DfSelect(c) ==
    \E film \in FilmIds(db) :
        /\ Begin(c, [pc |-> "df_votes", film |-> film])
        /\ UNCHANGED <<db, cast, sessions, shown>>

\* Mutant: the DELETE FROM votes is committed on its own.
DfDeleteVotesAutocommit(c) ==
    /\ conn[c].pc = "df_votes"
    /\ ~WriteLocked
    /\ LET tx == SqlDeleteVotesOfFilm(db, conn[c].film)
       IN  /\ conn' = [conn EXCEPT ![c] = [pc |-> "df_film", film |-> conn[c].film, tx |-> tx]]
           /\ db' = tx
    /\ UNCHANGED <<cast, sessions, shown>>

\* delete_film, DELETE FROM votes.
DfDeleteVotes(c) ==
    /\ conn[c].pc = "df_votes"
    /\ ~WriteLocked
    /\ LET tx == SqlDeleteVotesOfFilm(db, conn[c].film)
       IN  /\ conn' = [conn EXCEPT ![c] = [pc |-> "df_film", film |-> conn[c].film, tx |-> tx]]
           /\ db' = Visible(db, tx)
    /\ UNCHANGED <<cast, sessions, shown>>

\* delete_film, DELETE FROM films.
DfDeleteFilm(c) ==
    /\ conn[c].pc = "df_film"
    /\ LET tx == SqlDeleteFilm(conn[c].tx, conn[c].film)
       IN  /\ conn' = [conn EXCEPT ![c] = [pc |-> "commit", tx |-> tx]]
           /\ db' = Visible(db, tx)
    /\ UNCHANGED <<cast, sessions, shown>>

\* conn.commit(), conn.close(), return True.
ConnCommit(c) ==
    /\ conn[c].pc = "commit"
    /\ db' = Commit(conn[c].tx)
    /\ Return(c)
    /\ UNCHANGED <<cast, sessions, shown>>

\* The next store call of a method in progress raises (an I/O error, or
\* "database is locked" after the busy timeout when another connection holds
\* the write lock): `except Exception` returns False, the connection is
\* closed uncommitted.
ConnRaise(c) ==
    /\ conn[c].pc \notin {"idle", "gri_select"}
    /\ db' = IF conn[c].pc \in {"av_insert", "df_votes"}
             THEN Rollback(db, db) ELSE Rollback(db, conn[c].tx)
    /\ Return(c)
    /\ UNCHANGED <<cast, sessions, shown>>

\* get_round_info() by a caller: round_id = self.get_active_round() ...
GriGetActiveRound(c) ==
    \E r \in GetActiveRound(db) :
        /\ Begin(c, [pc |-> "gri_select", round |-> r])
        /\ UNCHANGED <<db, cast, sessions, shown>>

\* ... then the SELECT, on a second connection, and the return.
GriSelect(c) ==
    /\ conn[c].pc = "gri_select"
    /\ GriRow(db, conn[c].round) # {}
    /\ Return(c)
    /\ UNCHANGED <<db, cast, sessions, shown>>

NextConc ==
    \E c \in Callers :
        \/ AvGetActiveRound(c)
        \/ AvInsert(c)
        \/ CnrUpdate(c)
        \/ CnrInsert(c)
        \/ AfInsert(c)
        \/ DfSelect(c)
        \/ DfDeleteVotes(c)
        \/ DfDeleteFilm(c)
        \/ ConnCommit(c)
        \/ ConnRaise(c)
        \/ GriGetActiveRound(c)
        \/ GriSelect(c)

SpecConc == Init /\ [][NextConc]_vars

\* ------------------------------------------------------- Telegram handlers
\* python-telegram-bot awaits one update's handler before it takes the next,
\* and the store calls of a handler are synchronous: a handler is one step.

\* LOWER() of SQLite on one code point: ASCII letters only.
LowerChar(ch) == IF ch >= 65 /\ ch <= 90 THEN ch + 32 ELSE ch
Lower(title) == [i \in DOMAIN title |-> LowerChar(title[i])]

\* get_film_id_by_title: SELECT id FROM films WHERE LOWER(title) = LOWER(?),
\* fetchone(): the id of any matching row, or None.
GetFilmIdByTitle(d, title) ==
    LET hit == {f \in d.films : Lower(f.title) = Lower(title)}
    IN  IF hit = {} THEN {PyNone} ELSE {PyInt(f.id) : f \in hit}

WithinBotBounds(d) == d.seq.films + d.seq.rounds + d.seq.votes <= MaxBotInserts

\* A message the bot sends to, or puts in place of a message in, the chat
\* `chat` (a private chat has the id of its user). `detail` is what the text
\* carries of a user's marks or pick: a set of <<film_id, seen>> pairs.
Msg(chat, kind, detail) == [chat |-> chat, kind |-> kind, detail |-> detail]

\* What context.bot.get_chat_member gives: a member with a status, or an
\* exception.
Statuses == {"creator", "administrator", "member", "restricted", "left", "kicked"}
MemberLookups ==
    {[ok |-> TRUE, status |-> st] : st \in Statuses} \cup {[ok |-> FALSE, status |-> "error"]}

\* Mutant: every member of the chat passes.
IsUserAdminAnyMember(member) == member.ok

\* is_user_admin: member.status in ('administrator', 'creator'); False when
\* the lookup raises.
IsUserAdmin(member) == member.ok /\ member.status \in {"administrator", "creator"}

\* Mutant: a film marked goes to the front of the marks.
SetMarkFront(marks, film, seen) ==
    <<<<film, seen>>>> \o SelectSeq(marks, LAMBDA mk : mk[1] # film)

\* session['marks'][film_id] = seen on a dict that keeps insertion order: a
\* film marked again keeps its place and takes the new value.
SetMark(marks, film, seen) ==
    IF \E i \in DOMAIN marks : marks[i][1] = film
    THEN [i \in DOMAIN marks |-> IF marks[i][1] = film THEN <<film, seen>> ELSE marks[i]]
    ELSE Append(marks, <<film, seen>>)

\* The marks update_voting_interface prints: those of the films listed.
MarksPrinted(d, marks) ==
    {marks[i] : i \in {k \in DOMAIN marks : marks[k][1] \in FilmIds(d)}}

\* The vote handler, run for /vote by `user` in `chat`; `dm` is whether the
\* private message can be sent. An outcome is the user's session after the
\* run and the messages sent, in order.
HandleVote(d, sess, user, chat, dm) ==
    IF d.films = {}
    THEN {[session |-> sess, out |-> <<Msg(chat, "no_films", {})>>]}
    ELSE {IF HasUserVotedInRound(d, user, info[1])
          THEN [session |-> sess, out |-> <<Msg(chat, "already_voted", {})>>]
          ELSE IF dm
          THEN [session |-> [open |-> TRUE, round_id |-> info[1], marks |-> <<>>,
                             vote_chat_id |-> chat],
                out |-> <<Msg(user, "interface", {})>>]
          ELSE [session |-> sess, out |-> <<Msg(chat, "interface", {})>>] :
             info \in GetRoundInfo(d)}

\* Mutant: a mark without a session opens one ("get or create").
HandleMarkCreating(d, sess, user, at, film, seen) ==
    LET marks == SetMark(IF sess.open THEN sess.marks ELSE <<>>, film, seen)
    IN  {[session |-> [open |-> TRUE, round_id |-> PyInt(1), marks |-> marks,
                       vote_chat_id |-> at],
          out |-> <<Msg(at, "interface", MarksPrinted(d, marks))>>]}

\* button_callback for "mark_<film>_<seen>", pressed by `user` on a message
\* in the chat `at`. With a session the mark is stored and the message is
\* redrawn with the marks; the redraw may raise, after the mark is stored.
HandleMark(d, sess, user, at, film, seen) ==
    IF ~sess.open
    THEN {[session |-> sess, out |-> <<Msg(at, "session_expired", {})>>]}
    ELSE LET marks == SetMark(sess.marks, film, seen)
         IN  {[session |-> [sess EXCEPT !.marks = marks],
               out |-> <<Msg(at, "interface", MarksPrinted(d, marks))>>],
              [session |-> [sess EXCEPT !.marks = marks], out |-> <<>>]}

\* Mutant: the notification goes to the user's private chat.
NotificationToUser(sess, user) == Msg(user, "has_voted", {})

\* "<user name> has voted.", sent to session['vote_chat_id'].
Notification(sess, user) == Msg(sess.vote_chat_id, "has_voted", {})

\* The ways a run of the submit branch may go wrong outside add_vote: 0 none;
\* 1 the confirmation send_message raises (caught); 2 query.edit_message_text
\* raises (not caught: the handler ends there); 3 the notification
\* send_message raises (caught); 4 get_film_by_id or get_round_info raises
\* (not caught).
TgFaults == 0..4

\* button_callback for "submit_vote", pressed by `user` on a message in the
\* chat `at`. `fault` is the store fault of add_vote. An outcome is the store,
\* the user's session and the messages sent.
HandleSubmit(d, sess, user, at, fault, tg) ==
    IF ~sess.open
    THEN {[db |-> d, session |-> sess, out |-> <<Msg(at, "session_expired", {})>>]}
    ELSE IF sess.marks = <<>>
    THEN {[db |-> d, session |-> sess, out |-> <<>>]}
    ELSE IF HasUserVotedInRound(d, user, sess.round_id)
    THEN {IF tg = 2
          THEN [db |-> d, session |-> sess, out |-> <<>>]
          ELSE [db |-> d, session |-> NoSession, out |-> <<Msg(at, "already_voted", {})>>]}
    ELSE LET film == sess.marks[1][1]
             seen == sess.marks[1][2]
             pick == {<<film, seen>>}
             conf == IF tg = 1 THEN <<>> ELSE <<Msg(user, "confirmation", pick)>>
             note == IF tg = 3 THEN <<>> ELSE <<Notification(sess, user)>>
         IN  {IF o.ret = PyTrue
              THEN IF tg = 4 THEN [db |-> o.db, session |-> sess, out |-> <<>>]
                   ELSE IF tg = 2 THEN [db |-> o.db, session |-> sess, out |-> conf]
                   ELSE [db |-> o.db, session |-> NoSession,
                         out |-> conf \o <<Msg(at, "vote_submitted", pick)>> \o note]
              ELSE [db |-> o.db, session |-> sess,
                    out |-> IF tg = 2 THEN <<>> ELSE <<Msg(at, "already_voted", {})>>] :
                 o \in AddVote(d, user, film, seen, fault)}

\* The add_film handler: /addfilm <title> in `chat`; `member` is what the
\* status lookup gives; an empty title stands for a command without
\* arguments.
HandleAddFilm(d, member, chat, title, fault) ==
    IF ~IsUserAdmin(member) THEN {[db |-> d, out |-> <<Msg(chat, "admins_only", {})>>]}
    ELSE IF title = <<>> THEN {[db |-> d, out |-> <<Msg(chat, "usage", {})>>]}
    ELSE {[db |-> o.db,
           out |-> <<Msg(chat, IF o.ret = PyTrue THEN "film_added" ELSE "film_not_added", {})>>] :
             o \in AddFilm(d, title, fault)}

\* The delete_film handler: /deletefilm <title>.
HandleDeleteFilm(d, member, chat, title, fault) ==
    IF ~IsUserAdmin(member) THEN {[db |-> d, out |-> <<Msg(chat, "admins_only", {})>>]}
    ELSE IF title = <<>> THEN {[db |-> d, out |-> <<Msg(chat, "usage", {})>>]}
    ELSE UNION {IF id = PyNone \/ id.v = 0
                THEN {[db |-> d, out |-> <<Msg(chat, "film_not_found", {})>>]}
                ELSE {[db |-> o.db,
                       out |-> <<Msg(chat, IF o.ret = PyTrue THEN "film_deleted"
                                           ELSE "film_not_deleted", {})>>] :
                         o \in DeleteFilm(d, id.v, fault)} :
                   id \in GetFilmIdByTitle(d, title)}

\* The new_round handler: /newround <name>; "" stands for no arguments.
HandleNewRound(d, member, chat, name, fault) ==
    IF ~IsUserAdmin(member) THEN {[db |-> d, out |-> <<Msg(chat, "admins_only", {})>>]}
    ELSE IF name = "" THEN {[db |-> d, out |-> <<Msg(chat, "usage", {})>>]}
    ELSE {[db |-> o.db,
           out |-> <<Msg(chat, IF o.ret = PyTrue THEN "round_created" ELSE "round_not_created", {})>>] :
             o \in CreateNewRound(d, name, fault)}

\* The interface messages of `out` add their buttons to the chats they are in.
ShownAfter(d, sh, out) ==
    [at \in DOMAIN sh |->
        IF \E i \in DOMAIN out : out[i].chat = at /\ out[i].kind = "interface"
        THEN sh[at] \cup FilmIds(d) ELSE sh[at]]

\* /vote by `user` in `chat`.
CmdVote ==
    \E user \in BotUsers, chat \in Chats, dm \in BOOLEAN :
        \E o \in HandleVote(db, sessions[user], user, chat, dm) :
            /\ sessions' = [sessions EXCEPT ![user] = o.session]
            /\ shown' = ShownAfter(db, shown, o.out)
            /\ UNCHANGED <<db, cast, conn>>

\* A "mark_<film_id>_<seen>" button pressed by `user` on an interface
\* message that was sent at some time to the chat `at`.
CbMark ==
    \E user \in BotUsers, at \in Places, seen \in BOOLEAN : \E film \in shown[at] :
        \E o \in HandleMark(db, sessions[user], user, at, film, seen) :
            /\ sessions' = [sessions EXCEPT ![user] = o.session]
            /\ shown' = ShownAfter(db, shown, o.out)
            /\ UNCHANGED <<db, cast, conn>>

\* The "submit_vote" button pressed by `user` on an interface message in the
\* chat `at`.
CbSubmit ==
    \E user \in BotUsers, at \in Places, fault \in 0..2, tg \in TgFaults :
        /\ shown[at] # {}
        /\ \E o \in HandleSubmit(db, sessions[user], user, at, fault, tg) :
              /\ WithinBotBounds(o.db)
              /\ db' = o.db
              /\ cast' = cast \cup Inserted(db, o.db)
              /\ sessions' = [sessions EXCEPT ![user] = o.session]
        /\ UNCHANGED <<conn, shown>>

\* /addfilm by any member of a chat.
CmdAddFilm ==
    \E member \in MemberLookups, chat \in Chats, title \in Titles \cup {<<>>}, fault \in 0..2 :
        \E o \in HandleAddFilm(db, member, chat, title, fault) :
            /\ WithinBotBounds(o.db)
            /\ db' = o.db
            /\ UNCHANGED <<cast, sessions, conn, shown>>

\* /deletefilm by any member of a chat.
CmdDeleteFilm ==
    \E member \in MemberLookups, chat \in Chats, title \in Titles \cup {<<>>}, fault \in 0..3 :
        \E o \in HandleDeleteFilm(db, member, chat, title, fault) :
            /\ db' = o.db
            /\ UNCHANGED <<cast, sessions, conn, shown>>

\* /newround by any member of a chat.
CmdNewRound ==
    \E member \in MemberLookups, chat \in Chats, name \in RoundNames \cup {""}, fault \in 0..3 :
        \E o \in HandleNewRound(db, member, chat, name, fault) :
            /\ WithinBotBounds(o.db)
            /\ db' = o.db
            /\ UNCHANGED <<cast, sessions, conn, shown>>

NextBot ==
    \/ CmdVote
    \/ CbMark
    \/ CbSubmit
    \/ CmdAddFilm
    \/ CmdDeleteFilm
    \/ CmdNewRound

SpecBot == Init /\ [][NextBot]_vars

\* ==================================================================== C1
\* C1: in every state reached by any interleaving of the statements of
\* add_vote, create_new_round, add_film and delete_film calls on concurrent
\* connections, the votes relation, committed or written in an open
\* transaction, holds at most one ballot per (user_id, round_id) pair.
OneBallotPerPair(d) ==
    \A v, w \in d.votes :
        (v.user_id = w.user_id /\ v.round_id = w.round_id) => v = w

C1_OneBallotPerUserRound ==
    /\ OneBallotPerPair(db)
    /\ \A c \in Callers : conn[c].pc \in {"commit", "df_film", "cnr_insert"} => OneBallotPerPair(conn[c].tx)

\* Two add_vote calls of one participant for the same round are in progress
\* together: one has written its ballot and not yet committed, the other has
\* read the active round and is about to insert.
C1_Witness ==
    \E c, e \in Callers :
        /\ conn[c].pc = "commit" /\ conn[e].pc = "av_insert"
        /\ \E v \in conn[c].tx.votes \ db.votes :
              v.user_id = conn[e].user /\ v.round_id = conn[e].round

\* ==================================================================== C4
\* C4: at every point of every interleaving of create_new_round calls with
\* reads by other callers, the store a read sees has exactly one active
\* round; a get_active_round() made by a caller got a round id, not None, and
\* the row get_round_info reads for it exists.
C4_ReadersSeeOneActiveRound ==
    /\ Cardinality(ActiveRounds(db)) = 1
    /\ \A c \in Callers :
         conn[c].pc = "gri_select" =>
            /\ conn[c].round # PyNone
            /\ <<PyNone, PyNone>> \notin GriRow(db, conn[c].round)

\* A caller has read the active round while another caller's create_new_round
\* has run its UPDATE, so that its transaction holds no active round, and has
\* not yet inserted the new round.
C4_Witness ==
    \E c, e \in Callers :
        /\ conn[c].pc = "cnr_insert" /\ ActiveRounds(conn[c].tx) = {}
        /\ conn[e].pc = "gri_select" /\ conn[e].round # PyNone
        /\ Cardinality(db.rounds) >= 2

\* ==================================================================== C2
\* The ballots in votes of user p in round r.
BallotsOf(d, p, r) == {v \in d.votes : v.user_id = p /\ v.round_id = r}

\* C2 as stated: once an add_vote by p has succeeded in round r, every later
\* add_vote by p while r is the active round returns False and changes
\* nothing, whichever film and seen value it carries.
C2_OnceVotedAlwaysRejected ==
    \A pr \in cast :
        PyInt(pr[2]) \in GetActiveRound(db) =>
            \A film \in FilmIdArgs(db), seen \in BOOLEAN :
                \A o \in AddVote(db, pr[1], film, seen, 0) :
                    o.ret = PyFalse /\ o.db = db

\* C2 (amended): while the ballot p cast in round r is still in votes, every
\* add_vote by p while r is the active round returns False, whichever film
\* and seen value it carries and whether or not the store faults, and leaves
\* the votes relation and get_results(r) exactly as they were.
C2_DuplicateVoteRejected ==
    \A p \in Users : \A r \in GetActiveRound(db) :
        HasUserVotedInRound(db, p, r) =>
            \A film \in FilmIdArgs(db), seen \in BOOLEAN, fault \in 0..2 :
                \A o \in AddVote(db, p, film, seen, fault) :
                    /\ o.ret = PyFalse
                    /\ o.db.votes = db.votes
                    /\ GetResults(o.db, r) = GetResults(db, r)

\* p's add_vote succeeded in the round still active, the ballot is there, and
\* the catalog holds another film a second ballot could target.
C2_Witness ==
    \E pr \in cast : \E v \in BallotsOf(db, pr[1], pr[2]) :
        /\ PyInt(pr[2]) \in GetActiveRound(db)
        /\ \E f \in db.films : f.id # v.film_id

\* ==================================================================== C3
\* C3: after init_database (run once or again) and any sequence of
\* create_new_round calls, also ones that fail at any store call, exactly one
\* round has is_active = 1 and get_active_round returns its id, never None.
C3_ExactlyOneActiveRound ==
    /\ Cardinality(ActiveRounds(db)) = 1
    /\ \A r \in GetActiveRound(db) : r.t = "int" /\ \E x \in db.rounds : x.id = r.v
    /\ Cardinality(ActiveRounds(InitDatabase(db))) = 1
    /\ \A name \in RoundNames, fault \in 0..3 :
         \A o \in CreateNewRound(db, name, fault) :
            Cardinality(ActiveRounds(o.db)) = 1

\* Two create_new_round calls have succeeded after the bootstrap.
C3_Witness == Cardinality(db.rounds) >= 3 /\ Cardinality(ActiveRounds(db)) = 1

\* ==================================================================== C5
RoundIds(d) == {r.id : r \in d.rounds}

\* What a successful create_new_round(name) does to the rounds relation.
CreateNewRoundEffect(d, name, o) ==
    LET added == RoundIds(o.db) \ RoundIds(d)
    IN  /\ Cardinality(added) = 1
        /\ Cardinality(o.db.rounds) = Cardinality(d.rounds) + 1
        /\ \A r \in o.db.rounds :
              r.id \in added => r.name = name /\ r.is_active = 1
        /\ \A old \in d.rounds :
              \E r \in o.db.rounds :
                  r.id = old.id /\ r.name = old.name /\ r.is_active = 0
        /\ GetActiveRound(o.db) = {PyInt(id) : id \in added}

\* C5 as stated: a successful create_new_round adds one active round with the
\* given name under a fresh id, deactivates the previous one, deletes none,
\* makes get_active_round return the new id, and returns the new round's id.
C5_CreateNewRoundYieldsId ==
    \A name \in RoundNames : \A o \in CreateNewRound(db, name, 0) :
        /\ CreateNewRoundEffect(db, name, o)
        /\ o.ret \in {PyInt(id) : id \in RoundIds(o.db) \ RoundIds(db)}

\* C5 (amended): a successful create_new_round adds one active round with the
\* given name (which may equal an existing round's name) under a fresh id,
\* deactivates the previous one, deletes none and makes get_active_round
\* return the new id; the call itself returns True, not the id.
C5_CreateNewRoundEffect ==
    \A name \in RoundNames : \A o \in CreateNewRound(db, name, 0) :
        /\ o.ret = PyTrue
        /\ CreateNewRoundEffect(db, name, o)

\* A round was opened under the name of an earlier round, which is now closed.
C5_Witness ==
    \E r1, r2 \in db.rounds :
        /\ r1.id < r2.id /\ r1.name = r2.name
        /\ r1.is_active = 0 /\ r2.is_active = 1

\* ==================================================================== C6
\* C6: a ballot recorded by the submit_vote handler for a user carries the
\* round_id of that user's voting session (the round that was active at
\* /vote, in which the handler's already-voted check is made), also when
\* create_new_round ran between /vote and submit_vote.
C6_BallotInSessionRound ==
    [][\A user \in BotUsers :
          \A pr \in Inserted(db, db') :
              (pr[1] = user /\ sessions[user].open) =>
                  PyInt(pr[2]) = sessions[user].round_id]_vars

\* ==================================================================== C7
\* C7: in every state the handlers can reach, every ballot references a film
\* that is in films and a round that is in rounds.
C7_ReferentialIntegrity ==
    \A v \in db.votes : v.film_id \in FilmIds(db) /\ v.round_id \in RoundIds(db)

\* ==================================================================== C8
\* C8: add_vote with a film id that references no film in films fails,
\* inserts no ballot and leaves the participant free to vote in the round.
C8_UnknownFilmRejected ==
    \A user \in Users, seen \in BOOLEAN :
        \A film \in FilmIdArgs(db) \ FilmIds(db) :
            \A o \in AddVote(db, user, film, seen, 0) :
                /\ o.ret = PyFalse
                /\ o.db.votes = db.votes

\* ==================================================================== C9
\* The ballots on film id f in round id r with the stored seen value s.
BallotsOn(d, f, r, s) ==
    {v \in d.votes : v.film_id = f /\ v.round_id = r /\ v.seen = s}

\* C9: for every round id r and every catalog film f, the score
\* get_results(r) reports for f is 0.5 per ballot on f in r with seen = true
\* plus 1.0 per ballot on f in r with seen = false (in half points: 1 and 2),
\* and 0 when f has no ballot in r.
C9_ScoreRule ==
    \A r \in RoundIdArgs(db) : \A rows \in GetResults(db, PyInt(r)) :
        \A f \in db.films :
            /\ \E i \in DOMAIN rows : rows[i].title = f.title
            /\ \A i \in DOMAIN rows :
                 rows[i].title = f.title =>
                    rows[i].score = 1 * Cardinality(BallotsOn(db, f.id, r, 1))
                                    + 2 * Cardinality(BallotsOn(db, f.id, r, 0))

\* A film holds a seen and an unseen ballot in one round while another ballot
\* sits in a different round.
C9_Witness ==
    \E f \in db.films : \E r \in RoundIds(db) :
        /\ BallotsOn(db, f.id, r, 1) # {}
        /\ BallotsOn(db, f.id, r, 0) # {}
        /\ \E v \in db.votes : v.round_id # r

\* =================================================================== C10
\* C10: for every round id r, active, closed or not existing, get_results(r)
\* has exactly one entry per catalog film and none for any other film, also
\* for films without a ballot in r, and every score is >= 0.
C10_ResultsListCatalog ==
    \A r \in RoundIdArgs(db) :
        /\ GetResults(db, PyInt(r)) # {}
        /\ \A rows \in GetResults(db, PyInt(r)) :
             /\ Len(rows) = Cardinality(db.films)
             /\ \A f \in db.films :
                  Cardinality({i \in DOMAIN rows : rows[i].title = f.title}) = 1
             /\ \A i \in DOMAIN rows :
                  /\ rows[i].score >= 0
                  /\ \E f \in db.films : f.title = rows[i].title

\* Two films in the catalog, one with a ballot in a closed round and none in
\* the active round, the other with no ballot at all.
C10_Witness ==
    \E f, g \in db.films : \E v \in db.votes : \E r \in db.rounds :
        /\ f.id # g.id
        /\ v.film_id = f.id /\ v.round_id = r.id /\ r.is_active = 0
        /\ \A w \in db.votes : w.film_id # g.id

\* =================================================================== C11
\* C11: every sequence get_results(r) may return, for every round id r
\* (existing or not, or None), is ordered by score descending: each entry's
\* score is >= the score of the entry after it.
C11_ResultsOrderedByScore ==
    \A round \in ReadRoundArgs(db) : \A res \in GetResults(db, round) :
        \A i \in 1..(Len(res) - 1) : res[i].score >= res[i + 1].score

\* The film with the smaller id has the smaller score in the active round, so
\* that the order of the results is not the order of the rows of films.
C11_Witness ==
    \E f, g \in db.films : \E r \in GetActiveRound(db) :
        f.id < g.id /\ TotalScore(db, f, r) < TotalScore(db, g, r)

\* =================================================================== C12
\* The largest score of a catalog film in `round`.
IsMaxScore(d, round, score) ==
    /\ \E f \in d.films : TotalScore(d, f, round) = score
    /\ \A f \in d.films : TotalScore(d, f, round) <= score

\* C12: get_winner(r) returns the first row of a get_results(r); its score is
\* the maximum over the catalog films in round r; with an empty catalog it
\* returns (None, 0.0).
C12_WinnerIsFirstAndMax ==
    \A round \in RoundArgs(db) : \A w \in GetWinner(db, round) :
        IF db.films = {}
        THEN w = [title |-> PyNone, score |-> 0]
        ELSE /\ w.title.t = "str"
             /\ \E res \in GetResults(db, round) :
                   res[1] = [title |-> w.title.v, score |-> w.score]
             /\ IsMaxScore(db, round, w.score)

\* Two catalog films have different scores in a round that is closed.
C12_Witness ==
    \E f, g \in db.films : \E r \in db.rounds :
        /\ r.is_active = 0
        /\ TotalScore(db, f, PyInt(r.id)) < TotalScore(db, g, PyInt(r.id))

\* =================================================================== C13
\* C13: every create_new_round call, successful or failed at any store call,
\* leaves films and votes as they were and keeps every round; get_results of
\* every round that existed gives what it gave before the call; after a
\* successful call get_results of the new round lists every catalog film
\* with score 0.
C13_NewRoundKeepsHistory ==
    \A name \in RoundNames, fault \in 0..3 : \A o \in CreateNewRound(db, name, fault) :
        /\ o.db.films = db.films
        /\ o.db.votes = db.votes
        /\ \A r \in RoundIds(db) :
              /\ r \in RoundIds(o.db)
              /\ GetResults(o.db, PyInt(r)) = GetResults(db, PyInt(r))
        /\ o.ret = PyTrue =>
              /\ RoundIds(o.db) \ RoundIds(db) # {}
              /\ \A r \in RoundIds(o.db) \ RoundIds(db) :
                    \A res \in GetResults(o.db, PyInt(r)) :
                        /\ Len(res) = Cardinality(db.films)
                        /\ \A i \in 1..Len(res) : res[i].score = 0

\* create_new_round has run on a store with ballots: a catalog film has a
\* ballot, and so a score above 0, in a round that is now closed.
C13_Witness ==
    \E f \in db.films : \E r \in db.rounds :
        /\ r.is_active = 0
        /\ TotalScore(db, f, PyInt(r.id)) > 0
        /\ ActiveRounds(db) # {}

\* =================================================================== C14
\* C14: after a successful delete_film(X), X is in no get_all_films() and in
\* no get_results(r), for every round id r; no ballot on X is left; the
\* ballots on the other films are exactly those that were there, and every
\* other film has the result row and the vote counts it had, in every round.
C14_DeleteFilmCascade ==
    \A x \in db.films : \A fault \in 0..3 : \A o \in DeleteFilm(db, x.id, fault) :
        o.ret = PyTrue =>
            /\ \A films \in GetAllFilms(o.db) :
                  /\ \A i \in DOMAIN films : films[i][1] # x.id /\ films[i][2] # x.title
                  /\ ResultRows(films) = {<<g.id, g.title>> : g \in db.films \ {x}}
            /\ \A v \in o.db.votes : v.film_id # x.id
            /\ o.db.votes = {v \in db.votes : v.film_id # x.id}
            /\ \A round \in ReadRoundArgs(db) :
                  /\ \A res \in GetResults(o.db, round) :
                        /\ \A i \in DOMAIN res : res[i].title # x.title
                        /\ \E old \in GetResults(db, round) :
                              ResultRows(res) =
                                 {row \in ResultRows(old) : row.title # x.title}
                  /\ \A g \in db.films \ {x} :
                        GetVoteCountsForFilm(o.db, g.id, round) =
                           GetVoteCountsForFilm(db, g.id, round)

\* A film that had ballots was deleted, and a film with a ballot is left.
C14_Witness ==
    /\ db.seq.films > Cardinality(db.films)
    /\ db.seq.votes > Cardinality(db.votes)
    /\ \E g \in db.films : \E v \in db.votes : v.film_id = g.id

\* =================================================================== C15
\* What the other callers read before and after one step of a delete_film:
\* a film is gone only together with all the ballots on it, ballots are gone
\* only together with their film, and the rounds are as they were.
DeleteSeenWhole(before, after) ==
    /\ \A f \in before.films \ after.films : \A v \in after.votes : v.film_id # f.id
    /\ \A v \in before.votes \ after.votes : v.film_id \notin FilmIds(after)
    /\ (before.films \ after.films # {} \/ before.votes \ after.votes # {}) =>
          after.rounds = before.rounds

\* C15: under any interleaving of the statements of concurrent calls, the
\* committed store, which is what other callers read, never shows a film
\* removed while ballots on it remain, nor ballots removed while their film
\* remains; a delete_film of an id no film has returns False and changes
\* nothing; every delete_film, failed or not, leaves rounds unchanged.
C15_DeleteFilmAtomic ==
    /\ [][DeleteSeenWhole(db, db')]_vars
    /\ [](\A film \in FilmIdArgs(db), fault \in 0..3 : \A o \in DeleteFilm(db, film, fault) :
            /\ o.db.rounds = db.rounds
            /\ film \notin FilmIds(db) => (o.ret = PyFalse /\ o.db = db))

\* A delete_film is between its two DELETEs: its transaction has removed the
\* ballots of the film, and the committed store still holds the film and a
\* ballot on it.
C15_Witness ==
    \E c \in Callers :
        /\ conn[c].pc = "df_film"
        /\ conn[c].film \in FilmIds(db)
        /\ \E v \in db.votes : v.film_id = conn[c].film
        /\ \A v \in conn[c].tx.votes : v.film_id # conn[c].film

\* =================================================================== C16
\* C16: every call of get_results, get_winner, get_vote_counts_for_film,
\* has_user_voted_in_round, get_all_films, get_active_round and
\* get_round_info, with any user, film id and round id (of an active round,
\* of a closed one, of none, or None), leaves films, rounds and votes, and
\* the id sequences, as they were.
C16_ReadsLeaveStore ==
    \A user \in Users, film \in FilmIdArgs(db), round \in ReadRoundArgs(db) :
        /\ \A o \in CallGetResults(db, round) : o.db = db
        /\ \A o \in CallGetWinner(db, round) : o.db = db
        /\ \A o \in CallGetVoteCountsForFilm(db, film, round) : o.db = db
        /\ \A o \in CallHasUserVotedInRound(db, user, round) : o.db = db
        /\ \A o \in CallGetAllFilms(db) : o.db = db
        /\ \A o \in CallGetActiveRound(db) : o.db = db
        /\ \A o \in CallGetRoundInfo(db, round) : o.db = db

\* The store holds a film, a closed round with a ballot and an active round
\* with a ballot: the reads have rows of each kind to read.
C16_Witness ==
    /\ db.films # {}
    /\ \E v, w \in db.votes : \E r \in ActiveRounds(db) :
          v.round_id = r.id /\ w.round_id # r.id

C18_DuplicateTitleRejected ==
    /\ \A f, g \in db.films : f.title = g.title => f = g
    /\ \A title \in Titles, fault \in 0..2 : \A o \in AddFilm(db, title, fault) :
          IF (\E f \in db.films : f.title = title) \/ fault # 0
          THEN o.ret = PyFalse /\ o.db.films = db.films
          ELSE /\ o.ret = PyTrue
               /\ db.films \subseteq o.db.films
               /\ Cardinality(o.db.films \ db.films) = 1
               /\ \A f \in o.db.films \ db.films :
                     f.title = title /\ f.id \notin FilmIds(db)
               /\ o.db.votes = db.votes /\ o.db.rounds = db.rounds

\* The catalog holds one of the titles and not the other: an add_film can
\* repeat a title and an add_film can bring a new one.
C18_Witness ==
    /\ \E title \in Titles : \E f \in db.films : f.title = title
    /\ \E title \in Titles : \A f \in db.films : f.title # title

\* =================================================================== C19
\* Titles that are empty after trimming: "" and " ".
BlankTitles == {<<>>, <<32>>}
\* str.strip() leaves nothing: every character is ASCII white space.
IsBlank(title) == \A i \in DOMAIN title : title[i] \in {9, 10, 11, 12, 13, 32}

\* C19: add_film of a title that is empty after trimming returns False and
\* leaves the store as it was, and no film in the catalog has such a title.
C19_BlankTitleRejected ==
    /\ \A f \in db.films : ~IsBlank(f.title)
    /\ \A title \in BlankTitles : \A o \in AddFilm(db, title, 0) :
          o.ret = PyFalse /\ o.db = db

\* =================================================================== C20
\* Titles to store and to look up: "A", "a", and the letter E with acute
\* accent as capital and as small letter.
LookupTitles == {<<65>>, <<97>>, <<201>>, <<233>>}

\* A letter without its case: the small letter of a capital of the ASCII
\* and Latin-1 ranges.
FoldChar(ch) ==
    IF (ch >= 65 /\ ch <= 90) \/ (ch >= 192 /\ ch <= 222 /\ ch # 215) THEN ch + 32 ELSE ch
FoldTitle(title) == [i \in DOMAIN title |-> FoldChar(title[i])]

\* C20: with any film added to the catalog, get_film_id_by_title(t) returns
\* the id of a film whose title equals t ignoring letter case, and None
\* exactly when no film's title does; a delete_film of the id it returns, as
\* /deletefilm makes it, removes only a film whose title equals t ignoring
\* case.
C20_LookupIgnoresCase ==
    \A stored \in LookupTitles, t \in LookupTitles : \A a \in AddFilm(db, stored, 0) :
        LET matches == {f \in a.db.films : FoldTitle(f.title) = FoldTitle(t)}
        IN  \A id \in GetFilmIdByTitle(a.db, t) :
                IF matches = {}
                THEN id = PyNone
                ELSE /\ id \in {PyInt(f.id) : f \in matches}
                     /\ \A o \in DeleteFilm(a.db, id.v, 0) :
                           a.db.films \ o.db.films \subseteq matches

\* =================================================================== C21
\* C21: for every film id f and round id r, get_vote_counts_for_film(f, r)
\* returns seen = the number of ballots on f in r with seen true, unseen =
\* the number with seen false, total = seen + unseen = the number of all
\* ballots on f in r; and for a catalog film the score of get_results(r) is
\* 0.5 * seen + 1.0 * unseen of these counts (in half points: 1 and 2).
C21_VoteCounts ==
    \A film \in FilmIdArgs(db), r \in RoundIdArgs(db) :
        \A c \in GetVoteCountsForFilm(db, film, PyInt(r)) :
            /\ c.seen = Cardinality(BallotsOn(db, film, r, 1))
            /\ c.unseen = Cardinality(BallotsOn(db, film, r, 0))
            /\ c.total = c.seen + c.unseen
            /\ c.total = Cardinality({v \in db.votes : v.film_id = film /\ v.round_id = r})
            /\ \A f \in db.films : \A rows \in GetResults(db, PyInt(r)) :
                  \A i \in DOMAIN rows :
                      (f.id = film /\ rows[i].title = f.title) =>
                          rows[i].score = 1 * c.seen + 2 * c.unseen

\* A catalog film has a seen ballot in one round and an unseen ballot in
\* another round.
C21_Witness ==
    \E f \in db.films : \E r, q \in RoundIds(db) :
        /\ r # q
        /\ BallotsOn(db, f.id, r, 1) # {}
        /\ BallotsOn(db, f.id, q, 0) # {}

\* =================================================================== C22
\* C22: every add_film, add_vote, create_new_round and delete_film call that
\* returns False, whichever store call failed, leaves films, rounds, votes
\* and the id sequences as they were before the call: a create_new_round
\* that fails between its UPDATE and its INSERT leaves the old round active
\* and a failed add_vote leaves no ballot. Each call is one run of the
\* method's statements: none is run again.
C22_FailureLeavesStore ==
    /\ \A title \in Titles, fault \in 0..2 : \A o \in AddFilm(db, title, fault) :
          o.ret = PyFalse => o.db = db
    /\ \A user \in Users, film \in FilmIdArgs(db), seen \in BOOLEAN, fault \in 0..2 :
          \A o \in AddVote(db, user, film, seen, fault) :
              /\ o.ret = PyFalse => o.db = db
              /\ fault # 0 => o.ret = PyFalse
    /\ \A name \in RoundNames, fault \in 0..3 : \A o \in CreateNewRound(db, name, fault) :
          /\ o.ret = PyFalse => (o.db = db /\ ActiveRounds(o.db) = ActiveRounds(db))
          /\ fault # 0 => o.ret = PyFalse
    /\ \A film \in FilmIdArgs(db), fault \in 0..3 : \A o \in DeleteFilm(db, film, fault) :
          o.ret = PyFalse => o.db = db

\* A store on which each failing call has something to undo: an active
\* round to deactivate, a film with a ballot to delete, and a user without a
\* ballot in the active round.
C22_Witness ==
    /\ \E f \in db.films : \E v \in db.votes : v.film_id = f.id
    /\ \E r \in ActiveRounds(db) : \E user \in Users :
          \A v \in db.votes : ~(v.user_id = user /\ v.round_id = r.id)
    /\ \E title \in Titles : \A f \in db.films : f.title # title

\* --------------------------------------------------------------------- C23
\* The outcomes of each admin command for one status lookup, whatever the
\* arguments and the store fault.
AddFilmOutcomes(member) ==
    UNION {HandleAddFilm(db, member, chat, title, fault) :
              chat \in Chats, title \in Titles \cup {<<>>}, fault \in 0..2}
DeleteFilmOutcomes(member) ==
    UNION {HandleDeleteFilm(db, member, chat, title, fault) :
              chat \in Chats, title \in Titles \cup {<<>>}, fault \in 0..3}
NewRoundOutcomes(member) ==
    UNION {HandleNewRound(db, member, chat, name, fault) :
              chat \in Chats, name \in RoundNames \cup {""}, fault \in 0..3}
AdminCommandOutcomes(member) ==
    AddFilmOutcomes(member) \cup DeleteFilmOutcomes(member) \cup NewRoundOutcomes(member)

\* C23: /addfilm, /deletefilm and /newround change the store only when
\* is_user_admin is true for the sender; is_user_admin is true exactly when
\* the member status is 'administrator' or 'creator', and false when the
\* status lookup raises.
C23_AdminOnly ==
    \A member \in MemberLookups :
        /\ IsUserAdmin(member) <=> (member.ok /\ member.status \in {"administrator", "creator"})
        /\ ~member.ok => ~IsUserAdmin(member)
        /\ \A o \in AdminCommandOutcomes(member) :
              o.db # db => member.ok /\ member.status \in {"administrator", "creator"}

\* A store the admin commands have built and can still change: a film to
\* delete, a title to add, and a round opened by /newround.
C23_Witness ==
    /\ db.films # {}
    /\ \E title \in Titles : \A f \in db.films : f.title # title
    /\ db.seq.rounds >= 2
    /\ \E member \in MemberLookups : \E o \in AdminCommandOutcomes(member) : o.db # db
    /\ \E member \in MemberLookups : member.ok /\ \A o \in AdminCommandOutcomes(member) : o.db = db

\* --------------------------------------------------------------------- C24
\* The messages of one handler run that are posted or edited in `chat`.
MsgsIn(out, chat) == SelectSeq(out, LAMBDA msg : msg.chat = chat)

\* What the chat `g` sees of a mark, and of a submit after one mark, by `user`
\* on a message in `at`.
MarkSeenBy(g, sess, user, at, film, seen) ==
    {MsgsIn(o.out, g) : o \in HandleMark(db, sess, user, at, film, seen)}
SubmitSeenBy(g, sess, user, at, film, seen, fault, tg) ==
    {MsgsIn(o.out, g) :
        o \in HandleSubmit(db, [sess EXCEPT !.marks = <<<<film, seen>>>>], user, at, fault, tg)}

\* C24: what a user picked (film, seen or unseen) is never shown to the
\* group: two runs of a callback that differ only in the film and the seen
\* value the user chose put the same messages in the group chat where the
\* user's /vote was issued.
C24_PickHiddenFromGroup ==
    \A user \in BotUsers :
        sessions[user].open =>
            LET sess == sessions[user]
                g == sess.vote_chat_id
            IN  \A at \in Places : \A f1, f2 \in shown[at], s1, s2 \in BOOLEAN :
                    /\ MarkSeenBy(g, sess, user, at, f1, s1) = MarkSeenBy(g, sess, user, at, f2, s2)
                    /\ \A fault \in 0..2, tg \in TgFaults :
                          SubmitSeenBy(g, sess, user, at, f1, s1, fault, tg)
                              = SubmitSeenBy(g, sess, user, at, f2, s2, fault, tg)

\* --------------------------------------------------------------------- C25
\* The number of "<user> has voted" notifications among the messages of a run.
NotificationsIn(out) == Cardinality({i \in DOMAIN out : out[i].kind = "has_voted"})

\* The outcomes of submit_vote pressed by `user`, with the faults of the run.
SubmitRuns(user) ==
    UNION {{[tg |-> tg, o |-> o] : o \in HandleSubmit(db, sessions[user], user, at, fault, tg)} :
              at \in Places, fault \in 0..2, tg \in TgFaults}

MaxMarkEvents == 3

\* The film ids on the buttons of any interface message.
ShownFilms == UNION {shown[at] : at \in Places}

\* The runs of mark presses a user may make: <<film, seen>>, one per press.
MarkEvents == UNION {[1..n -> ShownFilms \X BOOLEAN] : n \in 1..MaxMarkEvents}

\* session['marks'] after the presses `ev` on a fresh session.
RECURSIVE ApplyMarks(_)
ApplyMarks(ev) ==
    IF ev = <<>> THEN <<>>
    ELSE SetMark(ApplyMarks(SubSeq(ev, 1, Len(ev) - 1)), ev[Len(ev)][1], ev[Len(ev)][2])

\* The seen value of the last press on `film` in `ev`.
LastSeen(ev, film) ==
    LET last == CHOOSE i \in DOMAIN ev :
                    /\ ev[i][1] = film
                    /\ \A j \in DOMAIN ev : ev[j][1] = film => j <= i
    IN  ev[last][2]

\* C27: submit_vote records at most one ballot; when the session holds marks
\* on several films the ballot is for the film that was marked first, with
\* the seen value last assigned to that film, and the other marks have no
\* effect on the store. Checked for every run of presses on a fresh session.
C27_FirstMarkedFilm ==
    \A user \in BotUsers :
        sessions[user].open /\ sessions[user].marks = <<>> =>
            \A ev \in MarkEvents :
                LET sess == [sessions[user] EXCEPT !.marks = ApplyMarks(ev)] IN
                \A at \in Places, fault \in 0..2, tg \in TgFaults :
                    \A o \in HandleSubmit(db, sess, user, at, fault, tg) :
                        /\ db.votes \subseteq o.db.votes
                        /\ Cardinality(o.db.votes \ db.votes) <= 1
                        /\ o.db.films = db.films /\ o.db.rounds = db.rounds
                        /\ \A v \in o.db.votes \ db.votes :
                              /\ v.user_id = user
                              /\ v.film_id = ev[1][1]
                              /\ v.seen = AdaptBool(LastSeen(ev, ev[1][1]))

\* A session holding marks on two films whose submit records a ballot.
C27_Witness ==
    \E user \in BotUsers :
        /\ sessions[user].open
        /\ Len(sessions[user].marks) >= 2
        /\ \E o \in HandleSubmit(db, sessions[user], user, user, 0, 0) : o.db.votes # db.votes

\* --------------------------------------------------------------------- C28
\* Whether a run sent a voting interface, to any chat.
InterfaceIn(out) == \E i \in DOMAIN out : out[i].kind = "interface"

\* The outcomes of /vote by `user`, in any chat, reachable privately or not.
VoteOutcomes(user) ==
    UNION {HandleVote(db, sessions[user], user, chat, dm) : chat \in Chats, dm \in BOOLEAN}

\* C28: has_user_voted_in_round(p, r) is true exactly when a ballot of p in r
\* exists. A /vote from a user for whom it is true in the active round, or
\* with an empty catalog, sends no voting interface and creates or replaces
\* no session.
C28_VotedOrEmptyNoInterface ==
    /\ \A p \in Users, r \in RoundIdArgs(db) :
          HasUserVotedInRound(db, p, PyInt(r))
              <=> \E v \in db.votes : v.user_id = p /\ v.round_id = r
    /\ \A user \in BotUsers :
          (\/ db.films = {}
           \/ \E r \in GetActiveRound(db) : HasUserVotedInRound(db, user, r))
          => \A o \in VoteOutcomes(user) :
                ~InterfaceIn(o.out) /\ o.session = sessions[user]

\* The user has voted in the active round, the catalog is not empty and a
\* session of the user is still open: a /vote here could replace it.
C28_Witness ==
    \E user \in BotUsers :
        /\ db.films # {}
        /\ \E r \in GetActiveRound(db) : HasUserVotedInRound(db, user, r)
        /\ sessions[user].open

C30_InterfaceHasSession ==
    \A user \in BotUsers : \A o \in VoteOutcomes(user) :
        InterfaceIn(o.out) =>
            /\ o.session.open
            /\ o.session.round_id \in GetActiveRound(db)
            /\ o.session.marks = <<>>

\* --------------------------------------------------------------------- C31
\* Whether a run replied "Already Voted".
AlreadyVotedIn(out) == \E i \in DOMAIN out : out[i].kind = "already_voted"

\* C31: after a submit_vote callback ends with either a recorded ballot or an
\* "Already Voted" reply, the user's voting session no longer exists, and a
\* later submit_vote from the same message reports an expired session.
C31_SessionEndsWithSubmit ==
    \A user \in BotUsers : \A run \in SubmitRuns(user) :
        (run.o.db.votes # db.votes \/ AlreadyVotedIn(run.o.out)) =>
            /\ ~run.o.session.open
            /\ \A at \in Places, fault \in 0..2, tg \in TgFaults :
                  \A later \in HandleSubmit(run.o.db, run.o.session, user, at, fault, tg) :
                      later.out = <<Msg(at, "session_expired", {})>>

\* --------------------------------------------------------------------- C32
\* The outcomes of the calls that are not a delete_film of `film`: add_film,
\* add_vote, create_new_round, and delete_film of any other film, with and
\* without a store fault.
CallsSparing(d, film) ==
    UNION {AddFilm(d, title, fault) : title \in Titles, fault \in 0..2}
    \cup UNION {AddVote(d, user, f, seen, fault) :
                   user \in Users, f \in FilmIdArgs(d), seen \in BOOLEAN, fault \in 0..2}
    \cup UNION {CreateNewRound(d, name, fault) : name \in RoundNames, fault \in 0..3}
    \cup UNION {DeleteFilm(d, f, fault) : f \in FilmIdArgs(d) \ {film}, fault \in 0..3}

\* C32: once p has a ballot in round r, has_user_voted_in_round(p, r) stays
\* true across every add_film, add_vote, create_new_round and delete_film of a
\* film other than the one the ballot targets; it becomes false only through
\* the deletion of that film, after which p can cast a new ballot in r while
\* r is still active.
C32_VotedUntilFilmDeleted ==
    \A v \in db.votes :
        LET p == v.user_id
            r == PyInt(v.round_id)
        IN  /\ HasUserVotedInRound(db, p, r)
            /\ \A o \in CallsSparing(db, v.film_id) : HasUserVotedInRound(o.db, p, r)
            /\ \A fault \in 0..3 : \A o \in DeleteFilm(db, v.film_id, fault) :
                  IF o.ret = PyTrue
                  THEN /\ ~HasUserVotedInRound(o.db, p, r)
                       /\ r \in GetActiveRound(o.db) =>
                             \A f \in FilmIdArgs(o.db), seen \in BOOLEAN :
                                 \A again \in AddVote(o.db, p, f, seen, 0) :
                                     /\ again.ret = PyTrue
                                     /\ HasUserVotedInRound(again.db, p, r)
                  ELSE HasUserVotedInRound(o.db, p, r)

\* A ballot in the active round on a film of the catalog, next to a second
\* film that can be deleted without touching the ballot.
C32_Witness ==
    \E v \in db.votes : \E f \in db.films :
        /\ PyInt(v.round_id) \in GetActiveRound(db)
        /\ v.film_id \in FilmIds(db)
        /\ f.id # v.film_id
        /\ \E w \in db.votes : w.film_id = f.id /\ w.user_id # v.user_id

\* --------------------------------------------------------------------- C33
\* The ballots of the store in round r.
BallotsOfRound(d, r) == {v \in d.votes : v.round_id = r}

\* The rounds of the store that are closed.
ClosedRounds(d) == {r \in d.rounds : r.is_active = 0}

\* C33: ballots are only ever inserted into the round that is active at the
\* moment of insertion: once a round is closed its set of ballots never grows
\* and it never becomes active again, so a closed round's get_results can
\* change only through add_film or delete_film.
C33_ClosedRoundFrozen ==
    [][/\ \A v \in db'.votes \ db.votes : \E r \in ActiveRounds(db') : r.id = v.round_id
       /\ \A r \in ClosedRounds(db) :
             /\ \A q \in db'.rounds : q.id = r.id => q.is_active = 0
             /\ BallotsOfRound(db', r.id) \subseteq BallotsOfRound(db, r.id)
             /\ db'.films = db.films =>
                   GetResults(db', PyInt(r.id)) = GetResults(db, PyInt(r.id))]_vars

\* --------------------------------------------------------------------- C34
\* The film ids held by the marks of the open sessions and by the ballots.
HeldFilmIds ==
    UNION {{sessions[user].marks[i][1] : i \in DOMAIN sessions[user].marks} :
              user \in {u \in BotUsers : sessions[u].open}}
    \cup {v.film_id : v \in db.votes}

\* C34: film ids and round ids are never reused: ids are handed out above
\* every id handed out before, deleted or not, so after delete_film(id) no
\* add_film assigns that id again, and a mark held in a stale session or a
\* ballot whose film has been deleted is never counted by get_results towards
\* a film that was added later.
C34_IdsNeverReused ==
    /\ \A f \in db.films : f.id \in 1..db.seq.films
    /\ \A r \in db.rounds : r.id \in 1..db.seq.rounds
    /\ \A id \in HeldFilmIds : id \in 1..db.seq.films
    /\ \A film \in FilmIdArgs(db), fault \in 0..3 :
          \A o \in DeleteFilm(db, film, fault) : o.db.seq = db.seq
    /\ \A name \in RoundNames, fault \in 0..3 :
          \A o \in CreateNewRound(db, name, fault) :
              /\ o.db.seq.rounds >= db.seq.rounds
              /\ \A r \in o.db.rounds \ db.rounds :
                    r.is_active = 1 => r.id > db.seq.rounds
    /\ \A title \in Titles, fault \in 0..2 :
          \A o \in AddFilm(db, title, fault) :
              /\ o.db.seq.films >= db.seq.films
              /\ \A f \in o.db.films \ db.films :
                    /\ f.id > db.seq.films
                    /\ f.id \notin HeldFilmIds
                    /\ \A r \in RoundIdArgs(o.db) :
                          /\ TotalScore(o.db, f, PyInt(r)) = 0
                          /\ \A res \in GetResults(o.db, PyInt(r)) :
                                \A row \in ResultRows(res) :
                                    row.title = f.title => row.score = 0
                    /\ \A user \in BotUsers, at \in Places, tg \in TgFaults :
                          \A sub \in HandleSubmit(o.db, sessions[user], user, at, 0, tg) :
                              \A v \in sub.db.votes \ o.db.votes : v.film_id # f.id

\* A film was deleted, a ballot on it is in votes and a session still holds a
\* mark on it, and a title can be added.
C34_Witness ==
    \E v \in db.votes : \E user \in BotUsers :
        /\ v.film_id \notin FilmIds(db)
        /\ sessions[user].open
        /\ \E i \in DOMAIN sessions[user].marks : sessions[user].marks[i][1] \notin FilmIds(db)
        /\ \E title \in Titles : \E o \in AddFilm(db, title, 0) : o.ret = PyTrue
====
